---- MODULE Spec2Model ----
(***************************************************************************)
(* MCPFederationManager (src/federation/mcp_federation_manager.py).        *)
(*                                                                         *)
(* The manager runs on one asyncio event loop: a coroutine runs without    *)
(* interruption from one await to the next, so every action below is the   *)
(* code between two awaits of one coroutine.                               *)
(*                                                                         *)
(* self.servers is the sequence of the registered MCPServerConfig records  *)
(* in dict order.  A coroutine suspended at an await holds a reference to  *)
(* a config object.  register_server holds a config nothing else refers    *)
(* to: it is kept by value in regs.  The health monitor and the calls in   *)
(* flight hold a config they took out of self.servers: they keep its key,  *)
(* which names the same object for as long as that key is neither deleted  *)
(* nor rebound.  When it is, the object they hold leaves the registry for  *)
(* good (register_server only ever stores a config it has just built), so  *)
(* nothing can read it again: the reference becomes Detached and writes    *)
(* through it are dropped.                                                 *)
(***************************************************************************)
EXTENDS Integers, Sequences, FiniteSets, TLC

\* ---------------------------------------------------------------- bounds
MaxErr == 6          \* error_count is not driven beyond this value
MaxErrLow == 2       \* the same, where the disable threshold plays no role
MaxTime == 1         \* readings of datetime.now() are 0..MaxTime
MaxCalls == 1        \* call_tool / read_resource requests in flight
MaxRegs == 1         \* register_server calls in flight
MaxCycles == 7       \* health cycles, where the cycles are counted

\* ------------------------------------------------------ program constants
DisableThreshold == 5

\* ----------------------------------------------------------- input sets
Names == {"a", "b"}
RegInputs == {[url |-> "u1", auth_type |-> "none"],
              [url |-> "u2", auth_type |-> "bearer"]}
\* what a backend may answer to tools/list and resources/list
ToolLists == {<<"t1">>, <<"t2", "t1">>}
ResourceLists == {<<"r1">>}
Listed(l) == [kind |-> "list", list |-> l]
\* a result without the "tools"/"resources" key, or no result at all
NoField == [kind |-> "nofield", list |-> << >>]
\* non-2xx, transport error or "error" in the body
Failure == [kind |-> "fail", list |-> << >>]
None == -1
Detached == "(detached)"

VARIABLES servers, regs, calls, mon, client, now, ret
vars == <<servers, regs, calls, mon, client, now, ret>>

\* dataclass MCPServerConfig: the constructor call of register_server
MCPServerConfig(n, inp) ==
    [name |-> n, url |-> inp.url, auth_type |-> inp.auth_type,
     enabled |-> TRUE, last_health_check |-> None, is_healthy |-> FALSE,
     tools |-> << >>, resources |-> << >>, error_count |-> 0]

\* ------------------------------------------------------- dict self.servers
Has(srv, n) == \E j \in 1..Len(srv) : srv[j].name = n
SlotOf(srv, n) == CHOOSE j \in 1..Len(srv) : srv[j].name = n
Get(srv, n) == srv[SlotOf(srv, n)]

\* (mutant) a present key is not rebound
SetItemKeepsFirst(srv, n, c) == IF Has(srv, n) THEN srv ELSE Append(srv, c)

\* self.servers[name] = config: a present key keeps its position
SetItem(srv, n, c) ==
    IF Has(srv, n) THEN [srv EXCEPT ![SlotOf(srv, n)] = c]
    ELSE Append(srv, c)

\* (mutant) the entry is not deleted
DelItemKeeps(srv, n) == srv

\* del self.servers[name]
DelItem(srv, n) ==
    LET j == SlotOf(srv, n) IN
    [k \in 1..(Len(srv) - 1) |-> IF k < j THEN srv[k] ELSE srv[k + 1]]

\* remove the k-th element of a sequence
Without(s, k) == [j \in 1..(Len(s) - 1) |-> IF j < k THEN s[j] ELSE s[j + 1]]

\* ------------------------------------------------------ config references
Live(srv, ref) == ref # Detached /\ Has(srv, ref)

\* the config a reference names; what a detached one names is garbage
Garbage == [name |-> Detached, url |-> "", auth_type |-> "",
            enabled |-> TRUE, last_health_check |-> None,
            is_healthy |-> FALSE, tools |-> << >>, resources |-> << >>,
            error_count |-> 0]
Held(srv, ref) == IF Live(srv, ref) THEN Get(srv, ref) ELSE Garbage

\* the config a reference names becomes c
Put(srv, ref, c) ==
    IF Live(srv, ref) THEN [srv EXCEPT ![SlotOf(srv, ref)] = c] ELSE srv

\* the key n is deleted or rebound: who holds its old object holds garbage
ForgetRef(ref, n) == IF ref = n THEN Detached ELSE ref
ForgetMon(m, n) == [m EXCEPT !.ref = ForgetRef(@, n)]
ForgetCalls(cl, n) == [k \in 1..Len(cl) |-> [cl[k] EXCEPT !.ref = ForgetRef(@, n)]]

\* ----------------------------------------------------- _call_mcp_method
\* (mutant) the connector re-raises without counting
ConnectorFailedUncounted(c) == c

\* except Exception: config.error_count += 1; raise
ConnectorFailed(c) == [c EXCEPT !.error_count = @ + 1]

\* the answers a backend may give; a request on a closed client can only fail
Responses(lists) == {Listed(l) : l \in lists} \cup {NoField, Failure}
Possible(resp) == client = "open" \/ resp = Failure

\* ------------------------------------------ _discover_server_capabilities
\* if tools_response and "tools" in tools_response: config.tools = ...
StoreTools(c, resp) ==
    IF resp = NoField THEN c ELSE [c EXCEPT !.tools = resp.list]

\* (mutant) a failed resources/list empties the resources
StoreResourcesClears(c, resp) ==
    IF resp = Failure THEN [ConnectorFailed(c) EXCEPT !.resources = << >>]
    ELSE IF resp = NoField THEN c
    ELSE [c EXCEPT !.resources = resp.list]

\* the resources/list part: a failure is counted by the connector and
\* swallowed by the bare except
StoreResources(c, resp) ==
    IF resp = Failure THEN ConnectorFailed(c)
    ELSE IF resp = NoField THEN c
    ELSE [c EXCEPT !.resources = resp.list]

\* (mutant) the discovery marks the config healthy without the time
MarkHealthyNoStamp(c, t) == [c EXCEPT !.is_healthy = TRUE]

\* config.is_healthy = True; config.last_health_check = datetime.now()
MarkHealthy(c, t) == [c EXCEPT !.is_healthy = TRUE, !.last_health_check = t]

\* ------------------------------------------------------- _health_monitor
MonAt(pc, m) ==
    [pc |-> pc, i |-> 0, used |-> 0, len |-> 0, ref |-> Detached,
     cancel |-> m.cancel]
Sleeping(m) == MonAt("sleep", m)

\* (mutant) the monitor checks every entry
SkippedNever(c) == FALSE

\* if not config.enabled: continue
Skipped(c) == ~c.enabled

\* (mutant) an error of the loop body ends the task
MonExceptPropagates(m) == MonAt("exited", m)

\* except Exception as e: logger.error(...): the while loop goes on with
\* the next sleep
MonExcept(m) == Sleeping(m)

\* for name, config in self.servers.items(): the dict iterator raises
\* RuntimeError when the size changed or when more keys turn up than the
\* dict had at the start; the outer except ends the cycle.  An entry with
\* enabled = False is skipped.  The loop runs until it awaits tools/list.
RECURSIVE MonLoop(_, _)
MonLoop(m, srv) ==
    IF Len(srv) # m.used THEN MonExcept(m)
    ELSE IF m.i > Len(srv) THEN Sleeping(m)
    ELSE IF m.len = 0 THEN MonExcept(m)
    ELSE LET nx == [m EXCEPT !.i = @ + 1, !.len = @ - 1]
         IN  IF Skipped(srv[m.i]) THEN MonLoop(nx, srv)
             ELSE [nx EXCEPT !.pc = "tools", !.ref = srv[m.i].name]

\* whether the loop, resumed at m, ends with the iterator's RuntimeError
RECURSIVE MonLoopRaised(_, _)
MonLoopRaised(m, srv) ==
    IF Len(srv) # m.used THEN TRUE
    ELSE IF m.i > Len(srv) THEN FALSE
    ELSE IF m.len = 0 THEN TRUE
    ELSE IF Skipped(srv[m.i])
         THEN MonLoopRaised([m EXCEPT !.i = @ + 1, !.len = @ - 1], srv)
         ELSE FALSE

\* (mutant) the success branch does not reset the count
HealthPassedKeepsCount(c) == [c EXCEPT !.is_healthy = TRUE]

\* the success branch of the monitor
HealthPassed(c) == [c EXCEPT !.is_healthy = TRUE, !.error_count = 0]

\* (mutant) the except branch counts the failure but leaves is_healthy
HealthFailedStaysHealthy(c) ==
    LET c1 == [c EXCEPT !.error_count = @ + 1]
    IN  IF c1.error_count > DisableThreshold
        THEN [c1 EXCEPT !.enabled = FALSE]
        ELSE c1

\* (mutant) the threshold is one too high
HealthFailedLate(c) ==
    LET c1 == [c EXCEPT !.is_healthy = FALSE, !.error_count = @ + 1]
    IN  IF c1.error_count > DisableThreshold + 1
        THEN [c1 EXCEPT !.enabled = FALSE]
        ELSE c1

\* the except branch of the monitor
HealthFailed(c) ==
    LET c1 == [c EXCEPT !.is_healthy = FALSE, !.error_count = @ + 1]
    IN  IF c1.error_count > DisableThreshold
        THEN [c1 EXCEPT !.enabled = FALSE]
        ELSE c1

\* ---------------------------------------------------------------- Init
\* what the call that finished in the last step gave its caller: the value
\* it returned, or "raise" with the error it raised; register_server logs
\* the error it swallows
Returned(op, n, v, e) == [op |-> op, name |-> n, val |-> v, err |-> e]
NoRet == Returned("none", "", "none", "none")
\* logger.error(f"Error in health monitor: {e}") when the loop raised
MonLogged(m, srv, log) ==
    IF MonLoopRaised(m, srv)
    THEN Returned("_health_monitor", "", "log", "RuntimeError")
    ELSE log
\* logger.debug(f"Health check passed: {name}") and
\* logger.warning(f"Health check failed for {name}: {e}"), for the config
\* the monitor holds
MonChecked(m, what) == Returned("_health_monitor", m.ref, "log", what)

Init ==
    /\ servers = << >>
    /\ regs = << >>
    /\ calls = << >>
    /\ mon = MonAt("off", [cancel |-> FALSE])
    /\ client = "none"
    /\ now = 0
    /\ ret = NoRet

\* ------------------------------------------------------------ start/stop
Start ==
    /\ client = "none"
    /\ client' = "open"
    /\ mon' = Sleeping(mon)
    /\ ret' = NoRet
    /\ UNCHANGED <<servers, regs, calls, now>>

\* the task is cancelled and the client closed
Stop ==
    /\ client = "open"
    /\ client' = "closed"
    /\ mon' = [mon EXCEPT !.cancel = (mon.pc # "exited")]
    /\ ret' = NoRet
    /\ UNCHANGED <<servers, regs, calls, now>>

\* time passes
Tick ==
    /\ now < MaxTime
    /\ now' = now + 1
    /\ ret' = NoRet
    /\ UNCHANGED <<servers, regs, calls, mon, client>>

\* ------------------------------------------------------- register_server
\* (mutant) a failed registration removes the entry of its name
RegisterExceptDeletes(srv, c) ==
    [servers |-> IF Has(srv, c.name) THEN DelItem(srv, c.name) ELSE srv,
     stored |-> FALSE, val |-> "False"]

\* (mutant) the config is stored although its discovery raised
RegisterExceptStores(srv, c) ==
    [servers |-> SetItem(srv, c.name, c), stored |-> TRUE, val |-> "True"]

\* except Exception as e: logger.error(...); return False.  The config the
\* call built is dropped and self.servers is not touched.
RegisterExcept(srv, c) == [servers |-> srv, stored |-> FALSE, val |-> "False"]

\* (mutant) a config stored over an entry of the same name keeps the tools
\* that entry had
RegisterStoreMerges(srv, c) ==
    [servers |-> SetItem(srv, c.name,
                         IF Has(srv, c.name)
                         THEN [c EXCEPT !.tools = Get(srv, c.name).tools]
                         ELSE c),
     stored |-> TRUE, val |-> "True"]

\* self.servers[name] = config; ...; return True
RegisterStore(srv, c) ==
    [servers |-> SetItem(srv, c.name, c), stored |-> TRUE, val |-> "True"]

\* register_server is over with outcome out for the config named n
RegisterDone(out, n, rg, e) ==
    /\ servers' = out.servers
    /\ regs' = rg
    /\ mon' = IF out.stored THEN ForgetMon(mon, n) ELSE mon
    /\ calls' = IF out.stored THEN ForgetCalls(calls, n) ELSE calls
    /\ ret' = Returned("register_server", n, out.val, e)
    /\ UNCHANGED <<client, now>>

\* the constructor and the code up to the await of tools/list.  Without a
\* client the connector raises before it sends anything.
RegisterStart(n, inp) ==
    LET c == MCPServerConfig(n, inp) IN
    IF client = "none"
    THEN RegisterDone(RegisterExcept(servers, c), n, regs, "NotInitialized")
    ELSE /\ regs' = Append(regs, [cfg |-> c, pc |-> "tools"])
         /\ ret' = NoRet
         /\ UNCHANGED <<servers, calls, mon, client, now>>

\* the answer to tools/list arrives in register_server's discovery
RegisterToolsResp(k, resp) ==
    /\ k \in 1..Len(regs) /\ regs[k].pc = "tools"
    /\ Possible(resp)
    /\ LET c == regs[k].cfg IN
       IF resp = Failure
       THEN RegisterDone(RegisterExcept(servers, ConnectorFailed(c)), c.name,
                         Without(regs, k), "BackendError")
       ELSE /\ regs' = [regs EXCEPT ![k] = [cfg |-> StoreTools(c, resp),
                                            pc |-> "resources"]]
            /\ ret' = NoRet
            /\ UNCHANGED <<servers, calls, mon, client, now>>

\* the answer to resources/list arrives; the rest of register_server runs
RegisterResourcesResp(k, resp) ==
    /\ k \in 1..Len(regs) /\ regs[k].pc = "resources"
    /\ Possible(resp)
    /\ LET c == MarkHealthy(StoreResources(regs[k].cfg, resp), now)
       IN  RegisterDone(RegisterStore(servers, c), c.name, Without(regs, k),
                        "none")

\* ----------------------------------------------------- unregister_server
\* an iterator of the monitor that is past the deleted entry stays past it
MonAfterDel(m, j) ==
    IF m.pc \in {"tools", "resources"} /\ j < m.i
    THEN [m EXCEPT !.i = @ - 1] ELSE m

UnregisterServer(n) ==
    /\ IF Has(servers, n)
       THEN /\ servers' = DelItem(servers, n)
            /\ mon' = ForgetMon(MonAfterDel(mon, SlotOf(servers, n)), n)
            /\ calls' = ForgetCalls(calls, n)
            /\ ret' = Returned("unregister_server", n, "True", "none")
       ELSE /\ ret' = Returned("unregister_server", n, "False", "none")
            /\ UNCHANGED <<servers, mon, calls>>
    /\ UNCHANGED <<regs, client, now>>

\* ------------------------------------------------------- _health_monitor
\* asyncio.sleep returns, dt clock units after the last step: a cycle starts
\* and runs up to its first await
MonitorWake(dt) ==
    /\ mon.pc = "sleep" /\ ~mon.cancel
    /\ now' = now + dt
    /\ mon' = MonLoop([mon EXCEPT !.i = 1, !.used = Len(servers),
                                  !.len = Len(servers)], servers)
    /\ ret' = NoRet
    /\ UNCHANGED <<servers, regs, calls, client>>

\* the monitor goes on after the check of one entry
MonitorNext(srv, log) ==
    /\ servers' = srv
    /\ mon' = MonLoop(mon, srv)
    /\ ret' = MonLogged(mon, srv, log)
    /\ UNCHANGED <<regs, calls, client, now>>

\* the answer to the monitor's tools/list arrives
MonitorToolsResp(resp) ==
    /\ mon.pc = "tools" /\ ~mon.cancel
    /\ Possible(resp)
    /\ LET c == Held(servers, mon.ref) IN
           IF resp = Failure
           THEN MonitorNext(Put(servers, mon.ref,
                                HealthFailed(ConnectorFailed(c))),
                            MonChecked(mon, "failed"))
           ELSE /\ servers' = Put(servers, mon.ref, StoreTools(c, resp))
                /\ mon' = [mon EXCEPT !.pc = "resources"]
                /\ ret' = NoRet
                /\ UNCHANGED <<regs, calls, client, now>>

\* the answer to the monitor's resources/list arrives
MonitorResourcesResp(resp) ==
    /\ mon.pc = "resources" /\ ~mon.cancel
    /\ Possible(resp)
    /\ LET c == Held(servers, mon.ref) IN
       MonitorNext(Put(servers, mon.ref,
                       HealthPassed(MarkHealthy(StoreResources(c, resp), now))),
                   MonChecked(mon, "passed"))

\* task.cancel() raises CancelledError at the await the monitor is
\* suspended at.  It is no Exception: the connector does not count it, and
\* the monitor's except asyncio.CancelledError leaves the loop; only the
\* bare except around resources/list catches it, and the cycle goes on.
MonitorCancelled ==
    /\ mon.cancel /\ mon.pc \in {"sleep", "tools", "resources"}
    /\ UNCHANGED <<regs, calls, client, now>>
    /\ IF mon.pc = "resources"
       THEN LET c == Held(servers, mon.ref)
                srv == Put(servers, mon.ref, HealthPassed(MarkHealthy(c, now)))
            IN  /\ servers' = srv
                /\ mon' = MonLoop([mon EXCEPT !.cancel = FALSE], srv)
                /\ ret' = MonLogged(mon, srv, MonChecked(mon, "passed"))
       ELSE /\ mon' = MonAt("exited", [cancel |-> FALSE])
            /\ ret' = NoRet
            /\ UNCHANGED servers

\* ------------------------------------------------ call_tool, read_resource
\* (mutant) call_tool without its health check
CallToolGateNoHealth(srv, n) ==
    IF ~Has(srv, n) THEN "UnknownBackend"
    ELSE IF client = "none" THEN "NotInitialized"
    ELSE "send"

\* the checks call_tool makes before it awaits the connector
CallToolGate(srv, n) ==
    IF ~Has(srv, n) THEN "UnknownBackend"
    ELSE IF ~Get(srv, n).is_healthy THEN "BackendUnhealthy"
    ELSE IF client = "none" THEN "NotInitialized"
    ELSE "send"

\* (mutant) read_resource with the health check of call_tool
ReadResourceGateHealth(srv, n) ==
    IF ~Has(srv, n) THEN "UnknownBackend"
    ELSE IF ~Get(srv, n).is_healthy THEN "BackendUnhealthy"
    ELSE IF client = "none" THEN "NotInitialized"
    ELSE "send"

\* (mutant) read_resource without its membership check: the lookup of the
\* config raises KeyError, or the request goes out without a client check
ReadResourceGateNoCheck(srv, n) ==
    IF ~Has(srv, n) THEN "KeyError" ELSE "send"

\* the checks read_resource makes before it awaits the connector
ReadResourceGate(srv, n) ==
    IF ~Has(srv, n) THEN "UnknownBackend"
    ELSE IF client = "none" THEN "NotInitialized"
    ELSE "send"

\* a request in flight: the method and the keys of the params the
\* connector was given, and the config it was given
Request(op, method, params, n) ==
    [op |-> op, method |-> method, params |-> params, name |-> n, ref |-> n]

Invoke(op, method, params, n, gate) ==
    /\ IF gate = "send"
       THEN /\ calls' = Append(calls, Request(op, method, params, n))
            /\ ret' = NoRet
       ELSE /\ ret' = Returned(op, n, "raise", gate)
            /\ UNCHANGED calls
    /\ UNCHANGED <<servers, regs, mon, client, now>>

CallTool(n) ==
    Invoke("call_tool", "tools/call", <<"name", "arguments">>, n,
           CallToolGate(servers, n))

ReadResource(n) ==
    Invoke("read_resource", "resources/read", <<"uri">>, n,
           ReadResourceGate(servers, n))

\* the answer to tools/call or resources/read arrives
CallResp(k, ok) ==
    /\ k \in 1..Len(calls)
    /\ ok => client = "open"
    /\ servers' = IF ok THEN servers
                  ELSE Put(servers, calls[k].ref,
                           ConnectorFailed(Held(servers, calls[k].ref)))
    /\ calls' = Without(calls, k)
    /\ ret' = IF ok THEN Returned(calls[k].op, calls[k].name, "result", "none")
              ELSE Returned(calls[k].op, calls[k].name, "raise",
                            "BackendError")
    /\ UNCHANGED <<regs, mon, client, now>>

\* ------------------------------------------------------------- readers
\* get_server_info: None for an unknown name (description and metadata
\* are copied from the constructor's arguments like url)
NoInfo == [name |-> "(none)"]
get_server_info(srv, n) ==
    IF ~Has(srv, n) THEN NoInfo
    ELSE LET c == Get(srv, n) IN
         [name |-> c.name, url |-> c.url, enabled |-> c.enabled,
          is_healthy |-> c.is_healthy,
          last_health_check |-> c.last_health_check,
          tools_count |-> Len(c.tools),
          resources_count |-> Len(c.resources),
          error_count |-> c.error_count]

list_servers(srv) == [j \in 1..Len(srv) |-> get_server_info(srv, srv[j].name)]

\* the entry get_all_tools makes of one tool of one server
NamespacedTool(server_name, tool) ==
    [name |-> server_name \o "." \o tool, server |-> server_name,
     original_name |-> tool]

\* the entry get_all_resources makes of one resource of one server
NamespacedResource(server_name, resource) ==
    [uri |-> server_name \o "://" \o resource, server |-> server_name,
     original_uri |-> resource]

\* (mutant) the aggregate filters on enabled alone
ListableIfEnabled(c) == c.enabled

\* if not config.enabled or not config.is_healthy: continue
Listable(c) == c.enabled /\ c.is_healthy

\* the two loops of get_all_tools, from server j on
RECURSIVE AllToolsFrom(_, _)
AllToolsFrom(srv, j) ==
    IF j > Len(srv) THEN << >>
    ELSE LET c == srv[j] IN
         (IF ~Listable(c) THEN << >>
          ELSE [k \in 1..Len(c.tools) |-> NamespacedTool(c.name, c.tools[k])])
         \o AllToolsFrom(srv, j + 1)

get_all_tools(srv) == AllToolsFrom(srv, 1)

RECURSIVE AllResourcesFrom(_, _)
AllResourcesFrom(srv, j) ==
    IF j > Len(srv) THEN << >>
    ELSE LET c == srv[j] IN
         (IF ~Listable(c) THEN << >>
          ELSE [k \in 1..Len(c.resources) |->
                    NamespacedResource(c.name, c.resources[k])])
         \o AllResourcesFrom(srv, j + 1)

get_all_resources(srv) == AllResourcesFrom(srv, 1)

\* (mutant) the statistics filter on enabled instead of is_healthy
CountedIfEnabled(c) == c.enabled

\* ... for s in self.servers.values() if s.is_healthy
Counted(c) == c.is_healthy

\* sum(f(s) for s in self.servers.values() if s.is_healthy), from server j on
RECURSIVE SumHealthy(_, _, _)
SumHealthy(srv, j, what) ==
    IF j > Len(srv) THEN 0
    ELSE (IF ~Counted(srv[j]) THEN 0
          ELSE IF what = "servers" THEN 1
          ELSE IF what = "tools" THEN Len(srv[j].tools)
          ELSE Len(srv[j].resources))
         + SumHealthy(srv, j + 1, what)

get_stats(srv) ==
    [total_servers |-> Len(srv),
     healthy_servers |-> SumHealthy(srv, 1, "servers"),
     total_tools |-> SumHealthy(srv, 1, "tools"),
     total_resources |-> SumHealthy(srv, 1, "resources"),
     servers |-> list_servers(srv)]

\* ---------------------------------------------------------- environments
\* A specification fixes its environment: the names and inputs callers
\* use, the answers backends give, how many calls overlap and how far
\* error_count and the clock are driven.
Room(c, resp, k, cap) == resp = Failure => c.error_count + k <= cap
RoomAt(ref, resp, k, cap) ==
    Live(servers, ref) => Room(Held(servers, ref), resp, k, cap)

Registrations(names, inputs, pend) ==
    \/ \E n \in names, inp \in inputs :
          Len(regs) < pend /\ RegisterStart(n, inp)
    \/ \E n \in names : UnregisterServer(n)

\* tas, ras: the answers to tools/list and to resources/list
Discoveries(tas, ras, cap) ==
    \/ \E k \in 1..Len(regs), resp \in tas :
          Room(regs[k].cfg, resp, 1, cap) /\ RegisterToolsResp(k, resp)
    \/ \E k \in 1..Len(regs), resp \in ras :
          Room(regs[k].cfg, resp, 1, cap) /\ RegisterResourcesResp(k, resp)
    \/ \E resp \in tas :
          RoomAt(mon.ref, resp, 2, cap) /\ MonitorToolsResp(resp)
    \/ \E resp \in ras :
          RoomAt(mon.ref, resp, 1, cap) /\ MonitorResourcesResp(resp)

Invocations(names, cap) ==
    \/ \E n \in names : Len(calls) < MaxCalls /\ CallTool(n)
    \/ \E n \in names : Len(calls) < MaxCalls /\ ReadResource(n)
    \/ \E k \in 1..Len(calls), ok \in BOOLEAN :
          RoomAt(calls[k].ref, IF ok THEN NoField ELSE Failure, 1, cap)
          /\ CallResp(k, ok)

OneInput == {[url |-> "u1", auth_type |-> "none"]}
SomeTools == Responses({<<"t2", "t1">>})
SomeResources == Responses(ResourceLists)

\* one backend "a", registered by one caller at a time; calls on "a" and on
\* the unknown "b"; the monitor, the clock and stop()
Next ==
    \/ Start
    \/ Stop
    \/ Tick
    \/ MonitorWake(0)
    \/ MonitorCancelled
    \/ Registrations({"a"}, OneInput, 1)
    \/ Discoveries(SomeTools, SomeResources, MaxErr)
    \/ Invocations(Names, MaxErr)

Spec == Init /\ [][Next]_vars

\* two backends, registered and unregistered by overlapping callers with
\* both inputs, and the monitor
NextRegistry ==
    \/ Start
    \/ MonitorWake(0)
    \/ Registrations(Names, RegInputs, MaxRegs)
    \/ Discoveries({Listed(<<"t2", "t1">>), Failure},
                   {Listed(<<"r1">>), Failure}, MaxErrLow)

SpecRegistry == Init /\ [][NextRegistry]_vars

\* two backends with every tool list, checked by the monitor until it
\* disables them
NextCatalog ==
    \/ Start
    \/ MonitorWake(0)
    \/ Registrations(Names, OneInput, 1)
    \/ Discoveries(Responses(ToolLists), SomeResources, MaxErr)

SpecCatalog == Init /\ [][NextCatalog]_vars

\* one backend "a" that the monitor finds healthy or not, and callers of
\* call_tool and read_resource on "a" and on the unknown "b"
NextInvoke ==
    \/ Start
    \/ MonitorWake(0)
    \/ Registrations({"a"}, OneInput, 1)
    \/ Discoveries({Listed(<<"t1">>), Failure},
                   {Listed(<<"r1">>), Failure}, MaxErr)
    \/ Invocations(Names, MaxErr)

SpecInvoke == Init /\ [][NextInvoke]_vars

\* backends registered with error_count = 0 before the first health cycle,
\* then no call but the monitor's, every tools/list of which fails; the
\* clock counts the sleeps of the monitor, one unit each
NextThreshold ==
    \/ Start
    \/ \E n \in Names, inp \in RegInputs :
          now = 0 /\ Len(regs) < 1 /\ RegisterStart(n, inp)
    \/ \E k \in 1..Len(regs), l \in ToolLists : RegisterToolsResp(k, Listed(l))
    \/ \E k \in 1..Len(regs), l \in ResourceLists :
          RegisterResourcesResp(k, Listed(l))
    \/ regs = << >> /\ now < MaxCycles /\ MonitorWake(1)
    \/ MonitorToolsResp(Failure)

SpecThreshold == Init /\ [][NextThreshold]_vars

\* backends whose names and tool names contain the separator of the
\* namespaced name
DottedNames == {"a", "a.b"}
DottedTools == {Listed(<<"b.c">>), Listed(<<"c">>), Failure}
NextNames ==
    \/ Start
    \/ MonitorWake(0)
    \/ Registrations(DottedNames, OneInput, 1)
    \/ Discoveries(DottedTools, {Listed(<<"r1">>)}, MaxErrLow)

SpecNames == Init /\ [][NextNames]_vars

\* one backend "a", the monitor and stop().  The event loop runs every
\* coroutine that is ready: a cancellation is delivered, a sleep that is
\* over returns, and a request of the monitor is answered or times out.
NextShutdown ==
    \/ Start
    \/ Stop
    \/ MonitorWake(0)
    \/ MonitorCancelled
    \/ Registrations({"a"}, OneInput, 1)
    \/ Discoveries(SomeTools, SomeResources, MaxErr)

SpecShutdown ==
    /\ Init /\ [][NextShutdown]_vars
    /\ WF_vars(MonitorCancelled)
    /\ WF_vars(MonitorWake(0))
    /\ WF_vars(Discoveries(SomeTools, SomeResources, MaxErr))

\* a step of the health monitor: a sleep that ends, an answer to one of its
\* requests, or the delivery of its cancellation
MonitorStep ==
    \/ \E dt \in 0..1 : MonitorWake(dt)
    \/ \E resp \in Responses(ToolLists) : MonitorToolsResp(resp)
    \/ \E resp \in Responses(ResourceLists) : MonitorResourcesResp(resp)
    \/ MonitorCancelled

\* two backends registered and unregistered at any time, every discovery
\* call of which succeeds; the clock counts the sleeps of the monitor, one
\* unit each
NextSnapshot ==
    \/ Start
    \/ Registrations(Names, OneInput, 1)
    \/ Discoveries({Listed(<<"t1">>)}, {Listed(<<"r1">>)}, MaxErrLow)
    \/ now < MaxCycles /\ MonitorWake(1)

SpecSnapshot == Init /\ [][NextSnapshot]_vars

\* one backend "a" whose discovery calls get every answer, at registration
\* and in the health cycles, while the clock runs and calls on "a" fail or
\* succeed
NextDiscovery ==
    \/ Start
    \/ Tick
    \/ MonitorWake(0)
    \/ Registrations({"a"}, OneInput, 1)
    \/ Discoveries(SomeTools, SomeResources, MaxErrLow)
    \/ Invocations({"a"}, MaxErrLow)

SpecDiscovery == Init /\ [][NextDiscovery]_vars

\* one backend "a" registered by callers that overlap, each with its own
\* input and its own answers, and the monitor
NextOverlap ==
    \/ Start
    \/ MonitorWake(0)
    \/ Registrations({"a"}, RegInputs, MaxRegs + 1)
    \/ Discoveries({Listed(l) : l \in ToolLists} \cup {Failure},
                   {Listed(<<"r1">>), Failure}, MaxErrLow)

SpecOverlap == Init /\ [][NextOverlap]_vars

\* ------------------------------------------------------------------ C1
\* C1 as claimed: a register_server whose tools/list fails reports success
\* and leaves an entry under its name with is_healthy = False and no tools.
C1_StoredDespiteFailedDiscovery ==
    [][\A k \in 1..Len(regs) :
          RegisterToolsResp(k, Failure) =>
              /\ ret'.val = "True"
              /\ Has(servers', regs[k].cfg.name)
              /\ ~Get(servers', regs[k].cfg.name).is_healthy
              /\ Get(servers', regs[k].cfg.name).tools = << >>]_vars

\* C1 as amended: a register_server whose tools/list fails returns False
\* and leaves self.servers as it was; a register_server returns True only
\* in the step that stores its config, with is_healthy = True.
C1_FailedDiscoveryNotStored ==
    [][/\ \A k \in 1..Len(regs) :
             RegisterToolsResp(k, Failure) =>
                 /\ ret' = Returned("register_server", regs[k].cfg.name,
                                    "False", "BackendError")
                 /\ servers' = servers
       /\ (ret'.op = "register_server" /\ ret'.val = "True") =>
             /\ Has(servers', ret'.name)
             /\ Get(servers', ret'.name).is_healthy]_vars

\* a registration has failed on tools/list and its name is not registered
C1_Witness ==
    /\ ret = Returned("register_server", "a", "False", "BackendError")
    /\ ~Has(servers, "a")
    /\ client = "open"

\* ------------------------------------------------------------------ C2
\* C2 as claimed: after k consecutive failed health cycles of backends that
\* started at error_count = 0, every backend is enabled while k <= 5 and
\* disabled once k >= 6.  (now counts the cycles; the monitor sleeps when
\* a cycle is over.)
C2_DisabledAfterSixthFailure ==
    \A j \in 1..Len(servers) :
        mon.pc = "sleep" =>
            /\ now <= DisableThreshold => servers[j].enabled
            /\ now >= DisableThreshold + 1 => ~servers[j].enabled

\* ------------------------------------------------------------------ C3
\* C3 as claimed: every registered backend with error_count > 5 is disabled.
C3_HighCountImpliesDisabled ==
    \A j \in 1..Len(servers) :
        servers[j].error_count > DisableThreshold => ~servers[j].enabled

\* C3 as amended: a backend whose error_count is above 5 when a health
\* check of it has failed is disabled in that same step.
C3_FailedCheckDisables ==
    [][(MonitorToolsResp(Failure) /\ Live(servers, mon.ref)) =>
          LET c == Get(servers', mon.ref)
          IN  c.error_count > DisableThreshold => ~c.enabled]_vars

\* the monitor has disabled a backend
C3_Witness ==
    \E j \in 1..Len(servers) :
        /\ servers[j].error_count > DisableThreshold
        /\ ~servers[j].enabled
        /\ ~servers[j].is_healthy

\* ------------------------------------------------------------------ C4
\* C4 as claimed: tools, resources, is_healthy and last_health_check of a
\* registered backend change in one step: a step that changes the tools or
\* the resources a reader sees for a name leaves the entry with the
\* is_healthy and last_health_check of a discovery that has just ended.
C4_DiscoveryWritesAtOnce ==
    [][\A n \in Names :
          (/\ Has(servers, n) /\ Has(servers', n)
           /\ \/ Get(servers', n).tools # Get(servers, n).tools
              \/ Get(servers', n).resources # Get(servers, n).resources)
          => /\ Get(servers', n).is_healthy
             /\ Get(servers', n).last_health_check = now']_vars

\* ------------------------------------------------------------------ C5
\* C5: a call_tool on a registered backend with is_healthy = False raises
\* the not-healthy error, puts no request in flight and changes nothing.
C5_UnhealthyGate ==
    [][\A n \in Names :
          (CallTool(n) /\ Has(servers, n) /\ ~Get(servers, n).is_healthy)
          => /\ ret' = Returned("call_tool", n, "raise", "BackendUnhealthy")
             /\ UNCHANGED <<servers, regs, calls, mon, client, now>>]_vars

\* call_tool has just been refused on the registered, unhealthy "a"
C5_Witness ==
    /\ ret = Returned("call_tool", "a", "raise", "BackendUnhealthy")
    /\ Has(servers, "a")
    /\ ~Get(servers, "a").is_healthy

\* ------------------------------------------------------------------ C6
\* C6: call_tool and read_resource on a name that is not registered raise
\* the unknown-server error, put no request in flight and change nothing.
C6_UnknownBackend ==
    [][\A n \in Names :
          /\ (CallTool(n) /\ ~Has(servers, n))
             => /\ ret' = Returned("call_tool", n, "raise", "UnknownBackend")
                /\ UNCHANGED <<servers, regs, calls, mon, client, now>>
          /\ (ReadResource(n) /\ ~Has(servers, n))
             => /\ ret' = Returned("read_resource", n, "raise",
                                   "UnknownBackend")
                /\ UNCHANGED <<servers, regs, calls, mon, client, now>>]_vars

\* read_resource has just been refused on "b" while "a" is registered
C6_Witness ==
    /\ ret = Returned("read_resource", "b", "raise", "UnknownBackend")
    /\ ~Has(servers, "b")
    /\ Has(servers, "a")

\* ------------------------------------------------------------------ C7
\* where an aggregate entry comes from: the slot of its server and the
\* place of its item in that server's list
SlotsOf(n) == {j \in 1..Len(servers) : servers[j].name = n}
PlacesOf(list, x) == {k \in 1..Len(list) : list[k] = x}
Before(j1, k1, j2, k2) == j1 < j2 \/ (j1 = j2 /\ k1 < k2)

\* C7: get_all_tools and get_all_resources hold the items of the backends
\* with enabled and is_healthy, all of them, nothing else, in the order of
\* the registry and then of each backend's list.
C7_CatalogIsProjection ==
    LET tl == get_all_tools(servers)
        rs == get_all_resources(servers)
        Good(j) == servers[j].enabled /\ servers[j].is_healthy
    IN  /\ \A e \in 1..Len(tl) :
               \E j \in SlotsOf(tl[e].server) :
                   Good(j) /\ PlacesOf(servers[j].tools, tl[e].original_name) # {}
        /\ \A j \in 1..Len(servers) : Good(j) =>
               \A k \in 1..Len(servers[j].tools) :
                   \E e \in 1..Len(tl) :
                       /\ tl[e].server = servers[j].name
                       /\ tl[e].original_name = servers[j].tools[k]
        /\ \A e1, e2 \in 1..Len(tl) : e1 < e2 =>
               \E j1 \in SlotsOf(tl[e1].server), j2 \in SlotsOf(tl[e2].server) :
                   \E k1 \in PlacesOf(servers[j1].tools, tl[e1].original_name),
                      k2 \in PlacesOf(servers[j2].tools, tl[e2].original_name) :
                       Before(j1, k1, j2, k2)
        /\ \A e \in 1..Len(rs) :
               \E j \in SlotsOf(rs[e].server) :
                   Good(j) /\ PlacesOf(servers[j].resources, rs[e].original_uri) # {}
        /\ \A j \in 1..Len(servers) : Good(j) =>
               \A k \in 1..Len(servers[j].resources) :
                   \E e \in 1..Len(rs) :
                       /\ rs[e].server = servers[j].name
                       /\ rs[e].original_uri = servers[j].resources[k]
        /\ \A e1, e2 \in 1..Len(rs) : e1 < e2 =>
               \E j1 \in SlotsOf(rs[e1].server), j2 \in SlotsOf(rs[e2].server) :
                   \E k1 \in PlacesOf(servers[j1].resources, rs[e1].original_uri),
                      k2 \in PlacesOf(servers[j2].resources, rs[e2].original_uri) :
                       Before(j1, k1, j2, k2)

\* a disabled backend with tools stands before a listed one with two tools
C7_Witness ==
    /\ Len(servers) = 2
    /\ ~servers[1].enabled /\ Len(servers[1].tools) > 0
    /\ servers[2].enabled /\ servers[2].is_healthy
    /\ Len(servers[2].tools) = 2
    /\ Len(get_all_tools(servers)) = 2

\* ------------------------------------------------------------------ C8
\* C8: get_stats counts every registered backend in total_servers, the
\* backends with is_healthy in healthy_servers, and in total_tools and
\* total_resources the tools and resources of exactly those.
C8_StatsConsistent ==
    LET st == get_stats(servers)
        H == {j \in 1..Len(servers) : servers[j].is_healthy}
    IN  /\ st.total_servers = Len(servers)
        /\ st.healthy_servers = Cardinality(H)
        /\ st.total_tools =
              Cardinality(UNION {{<<j, k>> : k \in 1..Len(servers[j].tools)} :
                                 j \in H})
        /\ st.total_resources =
              Cardinality(UNION {{<<j, k>> : k \in 1..Len(servers[j].resources)} :
                                 j \in H})
        /\ Len(st.servers) = Len(servers)

\* an unhealthy backend with tools beside a healthy one with other tools
C8_Witness ==
    /\ Len(servers) = 2
    /\ ~servers[1].is_healthy /\ servers[1].enabled
    /\ Len(servers[1].tools) = 2
    /\ servers[2].is_healthy /\ Len(servers[2].tools) = 1
    /\ get_stats(servers).total_tools = 1
    /\ get_stats(servers).total_servers = 2

\* ------------------------------------------------------------------ C9
\* C9: unregister_server of a registered name returns True and removes its
\* entry and no other; of a name that is not registered it returns False
\* and changes nothing; and a name that is not registered enters the
\* registry only in a step in which a register_server of it returns True.
C9_IdempotentUnregister ==
    [][\A n \in Names :
          /\ (UnregisterServer(n) /\ Has(servers, n))
             => /\ ret' = Returned("unregister_server", n, "True", "none")
                /\ ~Has(servers', n)
                /\ \A j \in 1..Len(list_servers(servers')) :
                       list_servers(servers')[j].name # n
                /\ \A m \in Names \ {n} :
                       get_server_info(servers', m) = get_server_info(servers, m)
          /\ (UnregisterServer(n) /\ ~Has(servers, n))
             => /\ ret' = Returned("unregister_server", n, "False", "none")
                /\ UNCHANGED <<servers, regs, calls, mon, client, now>>
          /\ (~Has(servers, n) /\ Has(servers', n))
             => ret' = Returned("register_server", n, "True", "none")]_vars

\* "a" has just been unregistered and "b" is still there
C9_Witness ==
    /\ ret = Returned("unregister_server", "a", "True", "none")
    /\ ~Has(servers, "a")
    /\ Has(servers, "b")

\* ----------------------------------------------------------------- C10
\* C10: when a register_server stores its config, the registry holds one
\* entry under its name, at the place of the entry it replaces if there
\* was one, and the entry is the config of this call: its url and
\* auth_type and what its own discovery found.
C10_LastWriteWins ==
    [][\A k \in 1..Len(regs), resp \in SomeResources :
          RegisterResourcesResp(k, resp) =>
              LET c == regs[k].cfg
                  e == Get(servers', c.name)
              IN  /\ Cardinality({j \in 1..Len(servers') :
                                     servers'[j].name = c.name}) = 1
                  /\ e.url = c.url /\ e.auth_type = c.auth_type
                  /\ e.tools = c.tools
                  /\ e.resources = (IF resp.kind = "list" THEN resp.list
                                    ELSE c.resources)
                  /\ e.error_count =
                        c.error_count + (IF resp = Failure THEN 1 ELSE 0)
                  /\ e.enabled /\ e.is_healthy /\ e.last_health_check = now
                  /\ Len(servers') =
                        Len(servers) + (IF Has(servers, c.name) THEN 0 ELSE 1)
                  /\ Has(servers, c.name) =>
                        SlotOf(servers', c.name) = SlotOf(servers, c.name)
                  /\ ret' = Returned("register_server", c.name, "True", "none")
       ]_vars

\* a register_server of "a" with the second input has just replaced the
\* entry the monitor was checking, which stood before "b"
C10_Witness ==
    /\ ret = Returned("register_server", "a", "True", "none")
    /\ Len(servers) = 2
    /\ servers[1].name = "a" /\ servers[1].url = "u2"
    /\ servers[2].name = "b"
    /\ mon.pc \in {"tools", "resources"} /\ mon.ref = Detached

\* ----------------------------------------------------------------- C11
\* C11 as claimed: for every backend B with enabled and is_healthy and
\* every tool T of its list, get_all_tools has exactly one entry named
\* "B.T", which has original_name = T and server = B.
C11_NamespacedNameUnique ==
    LET tl == get_all_tools(servers) IN
    \A j \in 1..Len(servers) :
        (servers[j].enabled /\ servers[j].is_healthy) =>
            \A k \in 1..Len(servers[j].tools) :
                LET nm == servers[j].name \o "." \o servers[j].tools[k]
                    E == {e \in 1..Len(tl) : tl[e].name = nm}
                IN  /\ Cardinality(E) = 1
                    /\ \A e \in E : /\ tl[e].original_name = servers[j].tools[k]
                                    /\ tl[e].server = servers[j].name

\* ----------------------------------------------------------------- C12
\* C12 as claimed: once stop() has been called, the health-monitor task
\* eventually leaves its loop, whichever await it was suspended at.
C12_StopEndsMonitor == (client = "closed") ~> (mon.pc = "exited")

\* ----------------------------------------------------------------- C13
\* C13: the monitor leaves its loop only in a step that delivers the
\* cancellation of stop(); a step in which the loop body raises (the dict
\* iterator's RuntimeError, logged by the outer except) or in which a
\* health check fails leaves the monitor asleep or at its next check, and
\* a monitor that sleeps while stop() has not been called can start a cycle.
C13_MonitorKeepsRunning ==
    [][/\ (mon.pc # "exited" /\ mon'.pc = "exited")
             => (mon.cancel /\ client = "closed")
       /\ ret' = Returned("_health_monitor", "", "log", "RuntimeError")
             => mon'.pc = "sleep"
       /\ MonitorToolsResp(Failure) => mon'.pc \in {"sleep", "tools"}
       /\ client = "open" => mon.pc \in {"sleep", "tools", "resources"}
       /\ (mon.pc = "sleep" /\ client = "open") => ENABLED MonitorWake(0)
      ]_vars

\* the registry changed size under the monitor's loop: the cycle has just
\* ended with the logged RuntimeError and stop() has not been called
C13_Witness ==
    /\ ret = Returned("_health_monitor", "", "log", "RuntimeError")
    /\ mon.pc = "sleep"
    /\ client = "open"

\* ----------------------------------------------------------------- C14
\* C14: a step of the health monitor leaves every backend that has
\* enabled = False as it is, all its fields, and puts no discovery call in
\* flight for it.
C14_DisabledUntouched ==
    [][MonitorStep =>
          \A j \in 1..Len(servers) :
              ~servers[j].enabled =>
                  /\ Len(servers') = Len(servers)
                  /\ servers'[j] = servers[j]
                  /\ mon'.pc \in {"tools", "resources"}
                        => mon'.ref # servers[j].name]_vars

\* a cycle has passed over the disabled first backend and checks the second
C14_Witness ==
    /\ Len(servers) = 2
    /\ ~servers[1].enabled
    /\ servers[2].enabled
    /\ mon.pc = "tools" /\ mon.ref = servers[2].name /\ mon.i = 3

\* ----------------------------------------------------------------- C15
\* C15: a read_resource on a registered backend hands the connector the
\* backend's config with method resources/read and params {uri} and
\* changes nothing else, whatever is_healthy and enabled are; when a
\* read_resource raises before it reaches the connector, the backend is
\* not registered and the error is the unknown-server error.
C15_ReadResourceNoHealthGate ==
    [][\A n \in Names :
          /\ (ReadResource(n) /\ Has(servers, n))
             => /\ calls' = Append(calls,
                       [op |-> "read_resource", method |-> "resources/read",
                        params |-> <<"uri">>, name |-> n, ref |-> n])
                /\ ret' = NoRet
                /\ UNCHANGED <<servers, regs, mon, client, now>>
          /\ (ReadResource(n) /\ ret'.val = "raise")
             => /\ ret'.err = "UnknownBackend"
                /\ ~Has(servers, n)]_vars

\* a read_resource is in flight on a backend the monitor has disabled
C15_Witness ==
    \E k \in 1..Len(calls) :
        /\ calls[k].op = "read_resource"
        /\ Live(servers, calls[k].ref)
        /\ ~Get(servers, calls[k].ref).is_healthy
        /\ ~Get(servers, calls[k].ref).enabled

\* ----------------------------------------------------------------- C16
\* C16 as claimed: a failed health check of a registered backend raises its
\* error_count by exactly 1 and leaves it with is_healthy = False.
C16_FailedCheckCountsOnce ==
    [][(MonitorToolsResp(Failure) /\ Live(servers, mon.ref)) =>
          /\ Get(servers', mon.ref).error_count =
                Get(servers, mon.ref).error_count + 1
          /\ ~Get(servers', mon.ref).is_healthy]_vars

\* ----------------------------------------------------------------- C17
\* C17 as claimed: when a discovery of a registered backend is over, failed
\* or not, the backend's last_health_check is the time of that step.
C17_LastCheckIsLastAttempt ==
    [][(/\ Live(servers, mon.ref)
        /\ \/ MonitorToolsResp(Failure)
           \/ \E resp \in Responses(ResourceLists) : MonitorResourcesResp(resp))
       => Get(servers', mon.ref).last_health_check = now']_vars

\* ----------------------------------------------------------------- C18
\* C18 as claimed: a cycle checks every backend that was registered and
\* enabled when it started, whatever register_server and unregister_server
\* do meanwhile.  Where every discovery succeeds and the clock counts the
\* cycles, every enabled backend then carries the time of the last cycle
\* (or of its own later registration) whenever the monitor sleeps.
C18_CycleChecksSnapshot ==
    (mon.pc = "sleep" /\ now >= 1) =>
        \A j \in 1..Len(servers) :
            servers[j].enabled => servers[j].last_health_check = now

\* ----------------------------------------------------------------- C19
\* C19: when a request of call_tool or read_resource fails, the backend's
\* error_count goes up by exactly 1, nothing else of the registry changes,
\* the failure reaches the caller and the request is not sent again; when
\* it succeeds the registry is left as it is.  A failed resources/list of
\* a registration is counted once in the config that is stored, and a
\* failed tools/list reaches register_server, which returns False.
C19_ConnectorCountsOnce ==
    [][/\ \A k \in 1..Len(calls) :
             /\ (CallResp(k, FALSE) /\ Live(servers, calls[k].ref))
                => /\ servers' =
                         [servers EXCEPT ![SlotOf(servers, calls[k].ref)]
                                             .error_count = @ + 1]
                   /\ ret' = Returned(calls[k].op, calls[k].name, "raise",
                                      "BackendError")
                   /\ Len(calls') = Len(calls) - 1
             /\ CallResp(k, TRUE)
                => /\ servers' = servers
                   /\ ret' = Returned(calls[k].op, calls[k].name, "result",
                                      "none")
       /\ \A k \in 1..Len(regs) :
             /\ RegisterResourcesResp(k, Failure)
                => Get(servers', regs[k].cfg.name).error_count =
                      regs[k].cfg.error_count + 1
             /\ RegisterToolsResp(k, Failure)
                => /\ ret'.err = "BackendError"
                   /\ Len(regs') = Len(regs) - 1
      ]_vars

\* a read_resource on "a" has just failed for the first time
C19_Witness ==
    /\ ret = Returned("read_resource", "a", "raise", "BackendError")
    /\ Has(servers, "a")
    /\ Get(servers, "a").error_count = 1

\* ----------------------------------------------------------------- C20
\* C20 as claimed: stop() does not abort a discovery call of the monitor
\* that is in flight: the monitor does not leave its loop from the await
\* of tools/list or resources/list, only once the call's outcome has been
\* applied and no call is in flight.
C20_InFlightCallCompletes ==
    [][mon.pc \in {"tools", "resources"} => mon'.pc # "exited"]_vars

\* ----------------------------------------------------------------- C21
\* C21: when the tools/list of a health check fails, the backend keeps its
\* tools, resources and last_health_check and has is_healthy = False after
\* the step; when the tools/list of a registration fails, the registration
\* ends there and the registry is left as it is.
C21_FailedToolsListFailsDiscovery ==
    [][/\ (MonitorToolsResp(Failure) /\ Live(servers, mon.ref)) =>
             LET c == Get(servers, mon.ref)
                 d == Get(servers', mon.ref)
             IN  /\ d.tools = c.tools
                 /\ d.resources = c.resources
                 /\ d.last_health_check = c.last_health_check
                 /\ ~d.is_healthy
       /\ \A k \in 1..Len(regs) :
             RegisterToolsResp(k, Failure) =>
                 /\ servers' = servers
                 /\ Len(regs') = Len(regs) - 1
      ]_vars

\* a health check of "a" has failed after the time of its last discovery:
\* it is unhealthy and keeps what that discovery found
C21_Witness ==
    /\ Has(servers, "a")
    /\ ~Get(servers, "a").is_healthy
    /\ Get(servers, "a").tools = <<"t2", "t1">>
    /\ Get(servers, "a").resources = <<"r1">>
    /\ Get(servers, "a").last_health_check = 0
    /\ now = 1
    /\ mon.pc = "sleep"

\* ----------------------------------------------------------------- C22
\* C22: a resources/list that fails does not fail the discovery: the
\* backend keeps its resources and its tools, and the discovery ends with
\* is_healthy = True and last_health_check at the time of the step, in a
\* health check and in a registration, which stores its config and
\* returns True.
C22_FailedResourcesListSwallowed ==
    [][/\ (MonitorResourcesResp(Failure) /\ Live(servers, mon.ref)) =>
             LET c == Get(servers, mon.ref)
                 d == Get(servers', mon.ref)
             IN  /\ d.resources = c.resources
                 /\ d.tools = c.tools
                 /\ d.is_healthy
                 /\ d.last_health_check = now'
       /\ \A k \in 1..Len(regs) :
             RegisterResourcesResp(k, Failure) =>
                 LET c == regs[k].cfg
                     d == Get(servers', c.name)
                 IN  /\ d.resources = c.resources
                     /\ d.tools = c.tools
                     /\ d.is_healthy
                     /\ d.last_health_check = now'
                     /\ ret' = Returned("register_server", c.name, "True",
                                        "none")
      ]_vars

\* a registration at time 1 whose resources/list failed has just stored "a"
C22_Witness ==
    /\ ret = Returned("register_server", "a", "True", "none")
    /\ Get(servers, "a").error_count = 1
    /\ Get(servers, "a").resources = << >>
    /\ Get(servers, "a").tools = <<"t2", "t1">>
    /\ Get(servers, "a").is_healthy
    /\ Get(servers, "a").last_health_check = 1

\* ----------------------------------------------------------------- C23
\* C23 as claimed: the entry stored by a register_server whose tools/list
\* succeeded and whose resources/list failed has is_healthy = True and
\* error_count = 0.
C23_SwallowedFailureLeavesNoTrace ==
    [][\A k \in 1..Len(regs) :
          RegisterResourcesResp(k, Failure) =>
              /\ Get(servers', regs[k].cfg.name).is_healthy
              /\ Get(servers', regs[k].cfg.name).error_count = 0]_vars

\* ----------------------------------------------------------------- C24
\* C24 as claimed: when the tools/list of a health check succeeds with a
\* result that has no "tools" field, the discovery goes on to
\* resources/list and the backend's tools become empty.
C24_MissingToolsFieldEmptiesTools ==
    [][(MonitorToolsResp(NoField) /\ Live(servers, mon.ref)) =>
          /\ mon'.pc = "resources"
          /\ Get(servers', mon.ref).tools = << >>]_vars

\* ----------------------------------------------------------------- C25
\* C25: when a health check of a registered backend succeeds, whatever the
\* answer to its resources/list, the backend has is_healthy = True and
\* error_count = 0 after the step, whatever its error_count was before.
C25_PassedCheckResetsCount ==
    [][\A resp \in Responses(ResourceLists) :
          (MonitorResourcesResp(resp) /\ Live(servers, mon.ref)) =>
              /\ Get(servers', mon.ref).is_healthy
              /\ Get(servers', mon.ref).error_count = 0]_vars

\* a health check of "a" has just passed while a read_resource on "a" is
\* in flight
C25_Witness ==
    /\ ret = Returned("_health_monitor", "a", "log", "passed")
    /\ Has(servers, "a")
    /\ Get(servers, "a").is_healthy
    /\ Get(servers, "a").error_count = 0
    /\ Get(servers, "a").last_health_check = 1
    /\ \E k \in 1..Len(calls) : calls[k].op = "read_resource"

\* ----------------------------------------------------------------- C26
\* C26: a step in which register_server returns False leaves the registry
\* as it is, an entry under the same name included; register_server
\* returns False when its tools/list fails and when there is no client.
C26_FailedRegistrationKeepsRegistry ==
    [][/\ (ret'.op = "register_server" /\ ret'.val = "False")
             => servers' = servers
       /\ \A k \in 1..Len(regs) :
             RegisterToolsResp(k, Failure) => ret'.val = "False"
       /\ \A n \in Names, inp \in RegInputs :
             (RegisterStart(n, inp) /\ client = "none")
                => ret' = Returned("register_server", n, "False",
                                   "NotInitialized")
      ]_vars

\* a second registration of "a" has just failed and the entry of the
\* first one is still there
C26_Witness ==
    /\ ret = Returned("register_server", "a", "False", "BackendError")
    /\ Has(servers, "a")
    /\ Get(servers, "a").is_healthy
    /\ Get(servers, "a").tools = <<"t2", "t1">>

\* ----------------------------------------------------------------- C27
\* C27 as claimed: a register_server of X that was awaiting its discovery
\* when unregister_server(X) ran does not insert X.  In the state right
\* after unregister_server(X) has returned, every pending registration of
\* X is such a call: the step that ends it leaves X absent.  (Here
\* unregister_server has removed an entry of X and returned True.)
C27_PendingRegistrationStaysOut ==
    [][\A k \in 1..Len(regs), resp \in Responses(ResourceLists) :
          (/\ ret = Returned("unregister_server", regs[k].cfg.name, "True",
                            "none")
           /\ RegisterResourcesResp(k, resp))
          => ~Has(servers', regs[k].cfg.name)]_vars

\* ----------------------------------------------------------------- C28
\* C28: in every reachable state, every registered backend with
\* enabled = False has is_healthy = False.
C28_DisabledImpliesUnhealthy ==
    \A j \in 1..Len(servers) : ~servers[j].enabled => ~servers[j].is_healthy

\* a read_resource is in flight on a backend the monitor has disabled, and
\* the monitor has passed over it since
C28_Witness ==
    /\ Has(servers, "a")
    /\ ~Get(servers, "a").enabled
    /\ ~Get(servers, "a").is_healthy
    /\ Get(servers, "a").error_count > DisableThreshold
    /\ mon.pc = "sleep"
    /\ \E k \in 1..Len(calls) : calls[k].op = "read_resource" /\ calls[k].ref = "a"

\* ----------------------------------------------------------------- C29
\* C29: a step that puts an entry under a name, new or in place of
\* another, puts one with is_healthy = True and last_health_check at the
\* time of the step, and it is a register_server returning True; and after
\* every step every registered entry has a last_health_check, in the
\* registry and in what get_server_info and list_servers report.
C29_RegisteredAfterDiscovery ==
    [][/\ \A n \in Names :
             (/\ Has(servers', n)
              /\ \/ ~Has(servers, n)
                 \/ ret' = Returned("register_server", n, "True", "none"))
             => /\ Get(servers', n).is_healthy
                /\ Get(servers', n).last_health_check = now'
                /\ ret' = Returned("register_server", n, "True", "none")
       /\ \A j \in 1..Len(servers') :
             /\ servers'[j].last_health_check # None
             /\ list_servers(servers')[j].last_health_check # None
             /\ get_server_info(servers', servers'[j].name).last_health_check
                   # None
      ]_vars

\* "a" has just been registered at time 1 and list_servers reports it
C29_Witness ==
    /\ ret = Returned("register_server", "a", "True", "none")
    /\ now = 1
    /\ Len(list_servers(servers)) = 1
    /\ list_servers(servers)[1].name = "a"
    /\ list_servers(servers)[1].last_health_check = 1
    /\ list_servers(servers)[1].is_healthy

\* ----------------------------------------------------------------- C30
\* C30: when register_server calls for one name overlap (another call for
\* the name is still awaiting its discovery, or has finished in the step
\* before), a call whose discovery completes leaves exactly one entry for
\* the name whose url, auth_type, tools, resources, is_healthy and
\* error_count are all those of this call's own config and answers; and a
\* call whose discovery raises leaves the registry as the other call left
\* it.
C30_OverlapLastCompletedWins ==
    [][\A k \in 1..Len(regs) :
          (\/ \E k2 \in 1..Len(regs) :
                 k2 # k /\ regs[k2].cfg.name = regs[k].cfg.name
           \/ ret.op = "register_server" /\ ret.name = regs[k].cfg.name)
          =>
             /\ \A resp \in {Listed(<<"r1">>), Failure} :
                   RegisterResourcesResp(k, resp) =>
                      LET c == regs[k].cfg
                          e == Get(servers', c.name)
                      IN  /\ Cardinality({j \in 1..Len(servers') :
                                             servers'[j].name = c.name}) = 1
                          /\ e.url = c.url
                          /\ e.auth_type = c.auth_type
                          /\ e.tools = c.tools
                          /\ e.resources =
                                (IF resp = Failure THEN << >> ELSE resp.list)
                          /\ e.is_healthy
                          /\ e.error_count = (IF resp = Failure THEN 1 ELSE 0)
             /\ RegisterToolsResp(k, Failure) => servers' = servers
      ]_vars

\* the call with the first input has just stored its config while the call
\* with the second input, which has other tools, awaits resources/list
C30_Witness ==
    /\ ret = Returned("register_server", "a", "True", "none")
    /\ Len(servers) = 1
    /\ servers[1].url = "u1" /\ servers[1].tools = <<"t1">>
    /\ servers[1].resources = <<"r1">>
    /\ Len(regs) = 1
    /\ regs[1].cfg.name = "a" /\ regs[1].cfg.url = "u2"
    /\ regs[1].cfg.tools = <<"t2", "t1">>
    /\ regs[1].pc = "resources"
====
